---------------------------- MODULE Spec2Model ----------------------------
(***************************************************************************)
(* Model of src/report_updated.py: the multi-month check-in dashboard.     *)
(*                                                                         *)
(* One run of the script is a straight-line program: the ingestion loop    *)
(* over the uploaded files, the concatenation and derived columns, the     *)
(* overall metrics, the monthly trend, the per-month group summaries and   *)
(* the per-month late-RA-user analysis.  A frame (pandas DataFrame) is a   *)
(* record [cols, rows]: the set of its column names and the bag of its     *)
(* rows (no operation of the script depends on the order of the rows: the  *)
(* script only masks, counts, groups and sorts by value).  A blank cell,   *)
(* and the cell of a column that concat adds to the rows of a file which   *)
(* lacked it, is NaN.  Percentages are kept in tenths of a percent         *)
(* (60.0 % is 600).  A month key "YYYY-MM" is the integer YYYY*100+MM,     *)
(* whose numeric order is the lexicographic order of the zero-padded       *)
(* strings.  A time of day is its number of seconds since midnight.        *)
(***************************************************************************)
EXTENDS Integers, Sequences, FiniteSets, Bags, TLC

(* ----------------------------- bounds --------------------------------- *)
\* rows in all the uploaded files together
MaxRows == 2
\* uploaded files
MaxFiles == 2
\* rows in all the files of a single-user upload together
MaxScenarioRows == 10

(* ------------------------ the input universe -------------------------- *)
NaN == "NaN"

\* value lists, each in the ascending order pandas' groupby sorts keys by
RoleOrder   == <<"RA", "SUP">>
UserOrder   == <<"u1", "u2">>
AreaOrder   == <<"North", "South">>
RegionOrder == <<"East">>
TimeOrder   == <<32400, 32401>>
DateOrder   == <<[y |-> 2024, m |-> 1, d |-> 31], [y |-> 2024, m |-> 2, d |-> 1]>>

\* cells of the group columns: a value or a blank cell
AreaCells   == AreaOrder \o <<NaN>>
RegionCells == RegionOrder

Range(s) == {s[i] : i \in DOMAIN s}

\* the headers of an uploaded sheet, and the canonical names they get
RequiredHeaders == {"User Role", "User Name", "Assigned Area", "Assigned Region",
                    "Check-In Time"}
Headers == RequiredHeaders \cup {"Check-In Date"}

RenameColumn(h) ==
    CASE h = "User Role"       -> "Role"
      [] h = "User Name"       -> "User"
      [] h = "Assigned Area"   -> "Area"
      [] h = "Assigned Region" -> "Region"
      [] h = "Check-In Time"   -> "CheckInTime"
      [] h = "Check-In Date"   -> "CheckInDate"
      [] OTHER                 -> h

\* the i-th raw row of the universe, 0 <= i < NumRawRows
NumRawRows == Len(RoleOrder) * Len(UserOrder) * Len(AreaCells) * Len(RegionCells)
              * Len(TimeOrder) * Len(DateOrder)

Digit(i, base, seq) == seq[((i \div base) % Len(seq)) + 1]

RawRow(i) ==
    LET b1 == Len(RoleOrder)
        b2 == b1 * Len(UserOrder)
        b3 == b2 * Len(AreaCells)
        b4 == b3 * Len(RegionCells)
        b5 == b4 * Len(TimeOrder)
    IN  [h \in Headers |->
            CASE h = "User Role"       -> Digit(i, 1, RoleOrder)
              [] h = "User Name"       -> Digit(i, b1, UserOrder)
              [] h = "Assigned Area"   -> Digit(i, b2, AreaCells)
              [] h = "Assigned Region" -> Digit(i, b3, RegionCells)
              [] h = "Check-In Time"   -> Digit(i, b4, TimeOrder)
              [] h = "Check-In Date"   -> Digit(i, b5, DateOrder)]

\* the non-decreasing index sequences of length n over lo..NumRawRows-1:
\* one per bag of n raw rows
RECURSIVE NonDecreasing(_, _)
NonDecreasing(n, lo) ==
    IF n = 0 THEN {<< >>}
    ELSE UNION {{<<i>> \o s : s \in NonDecreasing(n - 1, i)} : i \in lo..(NumRawRows - 1)}

RECURSIVE BagOfIndices(_)
BagOfIndices(s) ==
    IF s = << >> THEN EmptyBag
    ELSE SetToBag({RawRow(Head(s))}) (+) BagOfIndices(Tail(s))

\* the sheets with every header and exactly n rows
RowBags == [n \in 0..MaxRows |-> {BagOfIndices(s) : s \in NonDecreasing(n, 0)}]

\* the uploads of the data pipeline: complete sheets with n rows
Sheets(n) == {[cols |-> Headers, rows |-> b] : b \in RowBags[n]}

\* the check-ins of RA user u1 of area North in January 2024
ScenarioRows ==
    {r \in {RawRow(i) : i \in 0..(NumRawRows - 1)} :
        /\ r["User Role"] = "RA" /\ r["User Name"] = "u1"
        /\ r["Assigned Area"] = "North" /\ r["Assigned Region"] = "East"
        /\ r["Check-In Date"].m = 1}

RECURSIVE SumOver(_, _)
\* the sum of f over the set S
SumOver(f, S) ==
    IF S = {} THEN 0 ELSE LET x == CHOOSE y \in S : TRUE IN f[x] + SumOver(f, S \ {x})

\* the bags of exactly n such check-ins
ScenarioBags ==
    [n \in 0..MaxScenarioRows |->
        {[r \in {x \in ScenarioRows : c[x] > 0} |-> c[r]] :
            c \in {d \in [ScenarioRows -> 0..n] : SumOver(d, ScenarioRows) = n}}]

\* the single-user uploads: complete sheets with n rows
ScenarioSheets(n) == {[cols |-> Headers, rows |-> b] : b \in ScenarioBags[n]}

\* the rows of the sheets that may lack a header: check-ins of that user
SchemaBags == [n \in 0..MaxRows |-> {b \in RowBags[n] : BagToSet(b) \subseteq ScenarioRows}]

\* b without the cells of header h
WithoutHeader(b, h) ==
    LET strip(r) == [k \in Headers |-> IF k = h THEN NaN ELSE r[k]]
        kept == {strip(r) : r \in BagToSet(b)}
    IN  [s \in kept |-> SumOver(b, {r \in BagToSet(b) : strip(r) = s})]

\* the uploads that may lack one header: sheets with n rows
SchemaSheets(n) ==
    {[cols |-> Headers, rows |-> b] : b \in SchemaBags[n]}
    \cup {[cols |-> Headers \ {h}, rows |-> WithoutHeader(b, h)] :
              b \in SchemaBags[n], h \in Headers}

(* ------------------------------ state --------------------------------- *)
VARIABLES
    pc,               \* the section of the script that runs next
    dfs,              \* the frames read so far (line 25): their number and
                      \* their concatenation, all that pd.concat(dfs) reads
    df,               \* the combined frame with OnTime and Month (lines 46-60)
    threshold_time,   \* the st.time_input value (line 51)
    group_by_choice,  \* the st.radio value (line 65)
    threshold,        \* the st.slider value (line 153)
    months,           \* sorted(df["Month"].unique()) (line 116)
    mi,               \* how many months the running loop has done
    out,              \* what was handed to streamlit, in order
    divs,             \* the denominators of the percentage divisions made
    lacking           \* required headers that some uploaded sheet lacked

vars == <<pc, dfs, df, threshold_time, group_by_choice, threshold, months, mi,
          out, divs, lacking>>

NoFrame == [cols |-> {}, rows |-> EmptyBag]
\* dfs = []
NoFrames == [count |-> 0, all |-> NoFrame]

\* st.time_input's default value "09:00:00" (line 53)
DefaultThresholdTime == 32400
ThresholdTimes == {DefaultThresholdTime}
\* the slider (line 153): min, max, default, step
SliderMin == 0
SliderMax == 100
SliderDefault == 60
SliderStep == 5
SliderValues == {c \in SliderMin..SliderMax : (c - SliderMin) % SliderStep = 0}
\* the slider positions the runs use
CutoffChoices == {c \in SliderValues : c \in {SliderMin, 50, SliderDefault, SliderMax}}

\* st.radio's options (line 67)
Dimensions == {"Area", "Region"}
GroupOrder(dim) == IF dim = "Area" THEN AreaOrder ELSE RegionOrder

(* ----------------------------- helpers -------------------------------- *)
\* the number of rows of bag b that are in the set S of its elements
BagCount(b, S) == SumOver(b, S)

\* the bag of f[r] for the rows r of b
BagMap(b, f) ==
    [s \in {f[r] : r \in BagToSet(b)} |-> BagCount(b, {r \in BagToSet(b) : f[r] = s})]

Rows(frame) == BagToSet(frame.rows)
\* len(frame)
FrameLen(frame) == BagCardinality(frame.rows)

RECURSIVE SortedSeqDescending(_)
\* the bug of sorting with reverse=True
SortedSeqDescending(S) ==
    IF S = {} THEN << >>
    ELSE LET hi == CHOOSE x \in S : \A y \in S : x >= y
         IN  <<hi>> \o SortedSeqDescending(S \ {hi})

RECURSIVE SortedSeq(_)
\* sorted(S) of a set of integers
SortedSeq(S) ==
    IF S = {} THEN << >>
    ELSE LET lo == CHOOSE x \in S : \A y \in S : x <= y
         IN  <<lo>> \o SortedSeq(S \ {lo})

\* the bug of cutting the second decimal off instead of rounding
PctTruncated(num, den) == (num * 1000) \div den

\* round(num / den * 100, 1) in tenths of a percent, den > 0: numpy rounds
\* the scaled value to the nearest integer, halves to even
Pct(num, den) ==
    LET q == (num * 1000) \div den
        r == (num * 1000) % den
    IN  IF 2 * r < den THEN q
        ELSE IF 2 * r > den THEN q + 1
        ELSE IF q % 2 = 0 THEN q ELSE q + 1

\* t <= threshold_time (line 57)
OnTime(t, limit) == t <= limit

\* strftime("%Y-%m") of a date (line 60)
MonthKey(date) == date.y * 100 + date.m

Item(kind, month, rows) == [kind |-> kind, month |-> month, rows |-> rows]

\* an uncaught exception ends the run; streamlit shows it
Raise(what) ==
    /\ pc' = "error"
    /\ out' = Append(out, Item("exception", 0, <<what>>))

(* ------------------------------ Init ---------------------------------- *)
Init ==
    /\ pc = "ingest"
    /\ dfs = NoFrames
    /\ df = NoFrame
    /\ threshold_time = DefaultThresholdTime
    /\ group_by_choice = "Area"
    /\ threshold = SliderDefault
    /\ months = << >>
    /\ mi = 0
    /\ out = << >>
    /\ divs = {}
    /\ lacking = {}

\* the rows of the frames read so far
RowsIn(frames) == FrameLen(frames.all)

\* pd.concat of two frames: the columns of either, the rows of both (a cell
\* of a column the row's frame lacked is NaN already)
Concat(a, b) == [cols |-> a.cols \cup b.cols, rows |-> a.rows (+) b.rows]

\* dfs.append(df)
AppendFrame(frames, frame) ==
    [count |-> frames.count + 1, all |-> Concat(frames.all, frame)]

(* ------------------- lines 26-43: one uploaded file ------------------- *)
\* df.rename(columns=...) (lines 30-37)
Rename(file) ==
    LET renamed(r) == [c \in {RenameColumn(h) : h \in Headers} |->
                          r[CHOOSE h \in Headers : RenameColumn(h) = c]]
    IN  [cols |-> {RenameColumn(h) : h \in file.cols},
         rows |-> BagMap(file.rows, [r \in BagToSet(file.rows) |-> renamed(r)])]

\* the loop body: read, rename, parse CheckInDate then CheckInTime (a
\* KeyError when the column is absent), append
ReadFile(file) ==
    /\ pc = "ingest"
    /\ dfs.count < MaxFiles
    /\ lacking' = lacking \cup (RequiredHeaders \ file.cols)
    /\ LET frame == Rename(file)
       IN  IF "CheckInDate" \notin frame.cols
           THEN Raise("KeyError: CheckInDate") /\ UNCHANGED dfs
           ELSE IF "CheckInTime" \notin frame.cols
           THEN Raise("KeyError: CheckInTime") /\ UNCHANGED dfs
           ELSE dfs' = AppendFrame(dfs, frame) /\ UNCHANGED <<pc, out>>
    /\ UNCHANGED <<df, threshold_time, group_by_choice, threshold, months, mi, divs>>

\* line 24: nothing was uploaded, the script body is skipped
NoFiles ==
    /\ pc = "ingest"
    /\ dfs.count = 0
    /\ pc' = "done"
    /\ UNCHANGED <<dfs, df, threshold_time, group_by_choice, threshold, months, mi,
                   out, divs, lacking>>

(* ---------- lines 46-69: concat, OnTime, Month, the dimension ---------- *)
\* the OnTime and Month columns
Derive(frame, limit) ==
    LET ext(r) == [Role |-> r.Role, User |-> r.User, Area |-> r.Area,
                   Region |-> r.Region, CheckInTime |-> r.CheckInTime,
                   CheckInDate |-> r.CheckInDate,
                   OnTime |-> OnTime(r.CheckInTime, limit),
                   Month |-> MonthKey(r.CheckInDate)]
    IN  [cols |-> frame.cols \cup {"OnTime", "Month"},
         rows |-> BagMap(frame.rows, [r \in BagToSet(frame.rows) |-> ext(r)])]

\* dfs is not read again after line 46
Prepare(limit, dim) ==
    /\ pc = "ingest"
    /\ dfs.count > 0
    /\ threshold_time' = limit
    /\ group_by_choice' = dim
    /\ df' = Derive(dfs.all, limit)
    /\ dfs' = NoFrames
    /\ pc' = "summary"
    /\ UNCHANGED <<threshold, months, mi, out, divs, lacking>>

(* ---------------- lines 74-89: the overall summary ------------------- *)
\* df[df["Role"] == role]["User"].nunique(): NaN is not counted
DistinctUsers(S) == Cardinality({r.User : r \in S} \ {NaN})

\* the bug of dividing without the "if total_checkins" guard
OverallPctUnguarded(count, total) ==
    [pct |-> IF total = 0 THEN 0 ELSE Pct(count, total), div |-> {total}]

\* (count / total * 100) if total else 0, shown with one decimal; div is the
\* denominator the division used, if it was made
OverallPct(count, total) ==
    IF total # 0 THEN [pct |-> Pct(count, total), div |-> {total}]
    ELSE [pct |-> 0, div |-> {}]

Summary ==
    /\ pc = "summary"
    /\ IF "Role" \notin df.cols THEN Raise("KeyError: Role") /\ UNCHANGED divs
       ELSE IF "User" \notin df.cols THEN Raise("KeyError: User") /\ UNCHANGED divs
       ELSE LET total_ra == DistinctUsers({r \in Rows(df) : r.Role = "RA"})
                total_sup == DistinctUsers({r \in Rows(df) : r.Role = "SUP"})
                total_checkins == FrameLen(df)
                total_true == BagCount(df.rows, {r \in Rows(df) : r.OnTime})
                total_false == total_checkins - total_true
                true_pct == OverallPct(total_true, total_checkins)
                false_pct == OverallPct(total_false, total_checkins)
            IN  /\ out' = Append(out, Item("metrics", 0,
                        <<[total_ra |-> total_ra, total_sup |-> total_sup,
                           total_checkins |-> total_checkins,
                           total_true |-> total_true, total_false |-> total_false,
                           true_pct |-> true_pct.pct, false_pct |-> false_pct.pct]>>))
                /\ divs' = divs \cup true_pct.div \cup false_pct.div
                /\ pc' = "trend"
    /\ UNCHANGED <<dfs, df, threshold_time, group_by_choice, threshold, months, mi,
                   lacking>>

(* ------------- lines 94-116: the monthly trend, the months ------------ *)
\* .agg(Total_Checkins=("OnTime", "count"), False_Checkins=(x == False).sum())
\* of the rows S of the bag b, with False_% (lines 99-100, 125-126, 162-163)
Agg(b, S) ==
    LET total == BagCount(b, S)
        false == BagCount(b, {r \in S : ~r.OnTime})
    IN  [Total_Checkins |-> total, False_Checkins |-> false,
         False_pct |-> Pct(false, total)]

\* df["Month"].unique()
MonthsOf(frame) == {r.Month : r \in Rows(frame)}

\* df.groupby("Month"): one row per month, ascending
MonthSummary(frame) ==
    LET keys == SortedSeq(MonthsOf(frame))
    IN  [i \in 1..Len(keys) |->
            [key |-> keys[i]] @@ Agg(frame.rows, {r \in Rows(frame) : r.Month = keys[i]})]

Trend ==
    /\ pc = "trend"
    /\ LET month_summary == MonthSummary(df)
       IN  /\ out' = Append(out, Item("trend", 0, month_summary))
           /\ divs' = divs \cup {month_summary[i].Total_Checkins : i \in DOMAIN month_summary}
    /\ months' = SortedSeq(MonthsOf(df))
    /\ mi' = 0
    /\ pc' = "detail"
    /\ UNCHANGED <<dfs, df, threshold_time, group_by_choice, threshold, lacking>>

(* ------------- lines 117-147: one month's group summary -------------- *)
\* the keys of a groupby(dim) over rows with the key values K, ascending;
\* rows with a NaN key are dropped (groupby's default dropna=True)
GroupKeys(K, dim) ==
    LET present(k) == k \in K
    IN  SelectSeq(GroupOrder(dim), present)

\* mdf.groupby(group_by_choice).agg(...), with False_%
GroupSummary(frame, m, dim) ==
    LET mdf == {r \in Rows(frame) : r.Month = m}
        keys == GroupKeys({r[dim] : r \in mdf}, dim)
    IN  [i \in 1..Len(keys) |->
            [key |-> keys[i]] @@ Agg(frame.rows, {r \in mdf : r[dim] = keys[i]})]

RECURSIVE InsertAsc(_, _, _)
\* the bug of sorting with ascending=True
InsertAsc(x, s, field) ==
    IF s = << >> THEN <<x>>
    ELSE IF x[field] < Head(s)[field] THEN <<x>> \o s
    ELSE <<Head(s)>> \o InsertAsc(x, Tail(s), field)

RECURSIVE InsertDesc(_, _, _)
\* x put into the descending sequence s, after the rows that tie with it
InsertDesc(x, s, field) ==
    IF s = << >> THEN <<x>>
    ELSE IF x[field] > Head(s)[field] THEN <<x>> \o s
    ELSE <<Head(s)>> \o InsertDesc(x, Tail(s), field)

RECURSIVE SortDesc(_, _)
\* table.sort_values(field, ascending=False)
SortDesc(table, field) ==
    IF table = << >> THEN << >>
    ELSE InsertDesc(table[Len(table)], SortDesc(SubSeq(table, 1, Len(table) - 1), field),
                    field)

DetailMonth ==
    /\ pc = "detail"
    /\ mi < Len(months)
    /\ IF group_by_choice \notin df.cols
       THEN Raise("KeyError: group") /\ UNCHANGED <<divs, mi>>
       ELSE LET m == months[mi + 1]
                group_summary == GroupSummary(df, m, group_by_choice)
                shown == SortDesc(group_summary, "False_pct")
            IN  /\ out' = out \o <<Item("group_table", m, shown),
                                    Item("group_chart", m, shown)>>
                /\ divs' = divs \cup {group_summary[i].Total_Checkins :
                                          i \in DOMAIN group_summary}
                /\ mi' = mi + 1
                /\ UNCHANGED pc
    /\ UNCHANGED <<dfs, df, threshold_time, group_by_choice, threshold, months, lacking>>

(* --------------------- line 153: the cutoff slider -------------------- *)
SelectThreshold(c) ==
    /\ pc = "detail"
    /\ mi = Len(months)
    /\ threshold' = c
    /\ mi' = 0
    /\ pc' = "late"
    /\ UNCHANGED <<dfs, df, threshold_time, group_by_choice, months, out, divs, lacking>>

(* ------------ lines 155-199: one month's late RA users --------------- *)
\* df[(df["Month"] == m) & (df["Role"] == "RA")]
RaRows(frame, m) == {r \in Rows(frame) : r.Month = m /\ r.Role = "RA"}

\* the (group, user) keys of mdf.groupby([dim, "User"]), ascending
PairKeys(S, dim) ==
    LET order == GroupOrder(dim)
        n == Len(UserOrder)
        all == [i \in 1..(Len(order) * n) |->
                   [group |-> order[((i - 1) \div n) + 1], user |-> UserOrder[((i - 1) % n) + 1]]]
        present(k) == \E r \in S : r[dim] = k.group /\ r.User = k.user
    IN  SelectSeq(all, present)

\* ra_users with False_% (lines 158-163)
RaUsers(frame, m, dim) ==
    LET mdf == RaRows(frame, m)
        keys == PairKeys(mdf, dim)
    IN  [i \in 1..Len(keys) |->
            keys[i] @@ Agg(frame.rows, {r \in mdf : r[dim] = keys[i].group
                                                    /\ r.User = keys[i].user})]

\* the bug of an exclusive boundary
FilteredRaStrict(ra_users, cutoff) ==
    LET meets(row) == row.False_pct > cutoff * 10
    IN  SelectSeq(ra_users, meets)

\* the bug of a reversed comparison
FilteredRaBelow(ra_users, cutoff) ==
    LET meets(row) == row.False_pct <= cutoff * 10
    IN  SelectSeq(ra_users, meets)

\* ra_users[ra_users["False_%"] >= threshold] (line 164)
FilteredRa(ra_users, cutoff) ==
    LET meets(row) == row.False_pct >= cutoff * 10
    IN  SelectSeq(ra_users, meets)

\* the bug of counting the group's users in filtered_ra instead of mdf
TotalRaPerAreaFlagged(frame, m, dim, g) ==
    LET flagged == Range(FilteredRa(RaUsers(frame, m, dim), threshold))
    IN  Cardinality({row.user : row \in {x \in flagged : x.group = g}})

\* mdf.groupby(dim)["User"].nunique() at group g (line 171)
TotalRaPerArea(frame, m, dim, g) ==
    DistinctUsers({r \in RaRows(frame, m) : r[dim] = g})

\* area_late_count with Percent (lines 169-174), before the sort
AreaLateCount(frame, m, dim, filtered_ra) ==
    LET flagged == {filtered_ra[i] : i \in DOMAIN filtered_ra}
        keys == GroupKeys({row.group : row \in flagged}, dim)
    IN  [i \in 1..Len(keys) |->
            LET count == Cardinality({row.user : row \in {x \in flagged : x.group = keys[i]}})
                total == TotalRaPerArea(frame, m, dim, keys[i])
            IN  [key |-> keys[i], RA_Count |-> count, Total_RA |-> total,
                 Percent |-> Pct(count, total)]]

LateMonth ==
    /\ pc = "late"
    /\ mi < Len(months)
    /\ LET m == months[mi + 1]
           ra_users == RaUsers(df, m, group_by_choice)
           filtered_ra == FilteredRa(ra_users, threshold)
           table == Item("late_table", m, SortDesc(filtered_ra, "False_pct"))
           area_late_count == AreaLateCount(df, m, group_by_choice, filtered_ra)
       IN  /\ out' = out \o <<table,
                  IF filtered_ra # << >>
                  THEN Item("late_chart", m, SortDesc(area_late_count, "RA_Count"))
                  ELSE Item("info", m, << >>)>>
           /\ divs' = divs \cup {ra_users[i].Total_Checkins : i \in DOMAIN ra_users}
                           \cup {area_late_count[i].Total_RA : i \in DOMAIN area_late_count}
    /\ mi' = mi + 1
    /\ UNCHANGED <<pc, dfs, df, threshold_time, group_by_choice, threshold, months, lacking>>

\* the end of the script
Finish ==
    /\ pc = "late"
    /\ mi = Len(months)
    /\ pc' = "done"
    /\ UNCHANGED <<dfs, df, threshold_time, group_by_choice, threshold, months, mi,
                   out, divs, lacking>>

(* --------------------------- specification ---------------------------- *)
Upload ==
    /\ pc = "ingest"
    /\ \E n \in 0..(MaxRows - RowsIn(dfs)) : \E f \in Sheets(n) : ReadFile(f)

UploadScenario ==
    /\ pc = "ingest"
    /\ \E n \in 0..(MaxScenarioRows - RowsIn(dfs)) : \E f \in ScenarioSheets(n) : ReadFile(f)

UploadSchema ==
    /\ pc = "ingest"
    /\ \E n \in 0..(MaxRows - RowsIn(dfs)) : \E f \in SchemaSheets(n) : ReadFile(f)

Configure == \E t \in ThresholdTimes : \E g \in Dimensions : Prepare(t, g)

Slide == \E c \in CutoffChoices : SelectThreshold(c)

Run == NoFiles \/ Configure \/ Summary \/ Trend \/ DetailMonth \/ Slide
       \/ LateMonth \/ Finish

\* the pipeline on complete sheets of any rows
Next == Upload \/ Run
Spec == Init /\ [][Next]_vars

\* the pipeline on the check-ins of a single user
NextScenario == UploadScenario \/ Run
SpecScenario == Init /\ [][NextScenario]_vars

\* the pipeline on sheets that may lack a header
NextSchema == UploadSchema \/ Run
SpecSchema == Init /\ [][NextSchema]_vars

(* ------------------------- what the claims use ------------------------ *)
RECURSIVE SumField(_, _)
\* the sum of a column of a table
SumField(table, field) ==
    IF table = << >> THEN 0 ELSE Head(table)[field] + SumField(Tail(table), field)

\* the items of the given kinds handed to streamlit so far
Shown(kinds) == {i \in DOMAIN out : out[i].kind \in kinds}
\* the months of the items of a kind, in the order they were shown
MonthsShown(kind) ==
    LET is(item) == item.kind = kind
        items == SelectSeq(out, is)
    IN  [i \in DOMAIN items |-> items[i].month]

\* the records of month m, and counts over a set of records of df
MonthSlice(m) == {r \in Rows(df) : MonthKey(r.CheckInDate) = m}
NumRecords(S) == SumOver(df.rows, S)
NumLate(S) == SumOver(df.rows, {r \in S : r.CheckInTime > threshold_time})

\* the RA records of month m, group g and user u under the chosen dimension
RaRecords(m, g, u) ==
    {r \in MonthSlice(m) : r.Role = "RA" /\ r[group_by_choice] = g /\ r.User = u}
\* the False_% of every (group, user) pair with RA records in month m
RaScore(m) ==
    LET pairs == {p \in (Range(GroupOrder(group_by_choice)) \X Range(UserOrder)) :
                     RaRecords(m, p[1], p[2]) # {}}
    IN  [p \in pairs |-> LET S == RaRecords(m, p[1], p[2])
                          IN  Pct(NumLate(S), NumRecords(S))]
\* the pairs with a False_% of at least cutoff c, given those False_%
AtOrAbove(score, c) == {p \in DOMAIN score : score[p] >= c * 10}
\* the (group, user) pairs of month m whose False_% is at least cutoff c
Flagged(m, c) == AtOrAbove(RaScore(m), c)

IsPrefix(s, t) == Len(s) <= Len(t) /\ \A i \in DOMAIN s : s[i] = t[i]
Abs(x) == IF x < 0 THEN -x ELSE x
\* p is x/y*100 to the nearest tenth of a percent, in tenths
NearestTenth(p, x, y) == 2 * Abs(p * y - 1000 * x) <= y

\* C1: for every month and either dimension the per-group summary conserves
\* counts: its Total_Checkins sum to the number of records of the month and
\* its False_Checkins sum to the number of late records of the month.
C1_SummaryConservesCounts ==
    \A i \in Shown({"group_table"}) :
        /\ SumField(out[i].rows, "Total_Checkins") = NumRecords(MonthSlice(out[i].month))
        /\ SumField(out[i].rows, "False_Checkins") = NumLate(MonthSlice(out[i].month))

\* C2: the filter selects exactly the (group, user) RA records of the month
\* whose False_% is at least the cutoff, the cutoff itself included: the
\* late-user table of the run shows exactly those pairs, one row each, and so
\* does the filter at every position of the slider (0, 5, ..., 100).
C2_FilterSelectsAtOrAboveCutoff ==
    /\ \A i \in Shown({"late_table"}) :
        LET t == out[i].rows
        IN  /\ {<<t[k].group, t[k].user>> : k \in DOMAIN t} = Flagged(out[i].month, threshold)
            /\ Len(t) = Cardinality({<<t[k].group, t[k].user>> : k \in DOMAIN t})
            /\ \A k \in DOMAIN t : t[k].False_pct >= threshold * 10
    /\ (pc = "late" /\ mi = 0 /\ threshold = SliderDefault) =>
        \A m \in Range(months) :
            \A ra_users \in {RaUsers(df, m, group_by_choice)} : \A score \in {RaScore(m)} :
                \A c \in SliderValues :
                    \A t \in {FilteredRa(ra_users, c)} :
                        /\ {<<t[k].group, t[k].user>> : k \in DOMAIN t} = AtOrAbove(score, c)
                        /\ Len(t) = Cardinality({t[k] : k \in DOMAIN t})

\* a user whose False_% equals the cutoff exactly is in the table
C2_Witness ==
    \E i \in Shown({"late_table"}) :
        /\ threshold = 50
        /\ \E k \in DOMAIN out[i].rows : out[i].rows[k].False_pct = threshold * 10

\* C3: for every group of the flagged-group output of a month, the count is
\* the number of distinct flagged RA users of the group, the denominator is
\* the number of distinct RA users of the group among all RA records of the
\* month, the percentage is their ratio, the count never exceeds the
\* denominator and the percentage lies in [0, 100].
C3_FlaggedPercentOfAllRaUsers ==
    \A i \in Shown({"late_chart"}) :
        \A k \in DOMAIN out[i].rows :
            LET row == out[i].rows[k]
                m == out[i].month
                everyone == {u \in Range(UserOrder) : RaRecords(m, row.key, u) # {}}
                flagged == {u \in everyone : <<row.key, u>> \in Flagged(m, threshold)}
            IN  /\ row.RA_Count = Cardinality(flagged)
                /\ row.Total_RA = Cardinality(everyone)
                /\ row.Total_RA > 0
                /\ row.Percent = Pct(row.RA_Count, row.Total_RA)
                /\ NearestTenth(row.Percent, row.RA_Count, row.Total_RA)
                /\ row.RA_Count <= row.Total_RA
                /\ 0 <= row.Percent /\ row.Percent <= 1000

\* a group with an RA user who is flagged and one who is not
C3_Witness ==
    \E i \in Shown({"late_chart"}) :
        \E k \in DOMAIN out[i].rows :
            /\ out[i].rows[k].RA_Count = 1
            /\ out[i].rows[k].Total_RA = 2
            /\ out[i].rows[k].Percent = 500

Outputs == {"metrics", "trend", "group_table", "group_chart", "late_table",
            "late_chart", "info"}

\* C4: when an uploaded sheet lacks a required header the run halts with an
\* error before any summary, trend or per-group output: nothing is shown and
\* the run does not complete.
C4_MissingColumnHaltsFirst ==
    lacking # {} => (Shown(Outputs) = {} /\ pc # "done")

\* C5: no percentage division has a zero denominator, and the overall
\* percentages are 0 when there are no check-ins.
C5_NoZeroDenominator ==
    /\ 0 \notin divs
    /\ \A i \in Shown({"metrics"}) :
        out[i].rows[1].total_checkins = 0 =>
            out[i].rows[1].true_pct = 0 /\ out[i].rows[1].false_pct = 0

\* a completed run on uploads without a single record
C5_Witness ==
    /\ pc = "done"
    /\ \E i \in Shown({"metrics"}) : out[i].rows[1].total_checkins = 0

\* C6: for a month in which no RA user meets the cutoff the late-user step
\* shows the informational message and neither a table nor a chart; otherwise
\* it shows the table and the chart and no message.
C6_EmptyFilterShowsOnlyMessage ==
    \A m \in {out[i].month : i \in Shown({"late_table", "late_chart", "info"})} :
        LET has(kind) == \E i \in Shown({kind}) : out[i].month = m
        IN  IF Flagged(m, threshold) = {}
            THEN has("info") /\ ~has("late_table") /\ ~has("late_chart")
            ELSE has("late_table") /\ has("late_chart") /\ ~has("info")

\* C7: the trend has one entry per month key of the records, ascending, each
\* with the number of records of that month; the per-month analyses run over
\* the same months in the same order, each from the records of its month.
C7_OneEntryPerMonthAscending ==
    /\ \A i \in Shown({"trend"}) :
        LET t == out[i].rows
        IN  /\ \A k \in DOMAIN t : \A j \in DOMAIN t : k < j => t[k].key < t[j].key
            /\ {t[k].key : k \in DOMAIN t} = {MonthKey(r.CheckInDate) : r \in Rows(df)}
            /\ \A k \in DOMAIN t : t[k].Total_Checkins = NumRecords(MonthSlice(t[k].key))
            /\ IsPrefix(MonthsShown("group_table"), [k \in DOMAIN t |-> t[k].key])
            /\ IsPrefix(MonthsShown("late_table"), [k \in DOMAIN t |-> t[k].key])
            /\ pc \in {"late", "done"} => Len(MonthsShown("group_table")) = Len(t)
            /\ pc = "done" => Len(MonthsShown("late_table")) = Len(t)
    /\ \A i \in Shown({"group_table"}) :
        \A k \in DOMAIN out[i].rows :
            out[i].rows[k].Total_Checkins =
                NumRecords({r \in MonthSlice(out[i].month) :
                               r[group_by_choice] = out[i].rows[k].key})

\* a completed run over the records of two months
C7_Witness ==
    /\ pc = "done"
    /\ \E i \in Shown({"trend"}) : Len(out[i].rows) = 2
    /\ Len(MonthsShown("late_table")) = 2

\* C8: raising the cutoff never enlarges the flagged set: for the records,
\* threshold time, dimension and month of a run and slider positions
\* c1 <= c2, what the filter selects at c2 it selects at c1.
C8_RaisingCutoffShrinksFlagged ==
    (pc = "late" /\ mi = 0 /\ threshold = SliderDefault) =>
        \A m \in Range(months) :
            \A ra_users \in {RaUsers(df, m, group_by_choice)} :
                \A selected \in {[c \in SliderValues |-> Range(FilteredRa(ra_users, c))]} :
                    \A c1 \in SliderValues : \A c2 \in SliderValues :
                        c1 <= c2 => selected[c2] \subseteq selected[c1]

\* a month whose flagged set gets smaller when the cutoff is raised
C8_Witness ==
    /\ pc = "late" /\ mi = 0 /\ threshold = SliderDefault
    /\ \E m \in Range(months) :
        LET ra_users == RaUsers(df, m, group_by_choice)
        IN  /\ FilteredRa(ra_users, 50) # << >>
            /\ Len(FilteredRa(ra_users, 55)) < Len(FilteredRa(ra_users, 50))

\* C9: every row of a group summary and of a late-user table has
\* Total_Checkins > 0 and a False_% that is False_Checkins / Total_Checkins
\* * 100 to one decimal place, within [0, 100]; 6 late of 10 is 60.0.
C9_FalsePctRoundedToOneDecimal ==
    /\ \A i \in Shown({"group_table"}) :
        \A k \in DOMAIN out[i].rows :
            LET row == out[i].rows[k]
                S == {r \in MonthSlice(out[i].month) : r[group_by_choice] = row.key}
            IN  /\ row.Total_Checkins = NumRecords(S) /\ row.False_Checkins = NumLate(S)
                /\ row.Total_Checkins > 0
                /\ NearestTenth(row.False_pct, row.False_Checkins, row.Total_Checkins)
                /\ 0 <= row.False_pct /\ row.False_pct <= 1000
                /\ (row.Total_Checkins = 10 /\ row.False_Checkins = 6) => row.False_pct = 600
    /\ \A i \in Shown({"late_table"}) :
        \A k \in DOMAIN out[i].rows :
            LET row == out[i].rows[k]
                S == RaRecords(out[i].month, row.group, row.user)
            IN  /\ row.Total_Checkins = NumRecords(S) /\ row.False_Checkins = NumLate(S)
                /\ row.Total_Checkins > 0
                /\ NearestTenth(row.False_pct, row.False_Checkins, row.Total_Checkins)
                /\ 0 <= row.False_pct /\ row.False_pct <= 1000

\* area North with 10 check-ins, 6 of them late: 60.0, and the user is
\* flagged at cutoff 60
C9_Witness ==
    /\ \E i \in Shown({"group_table"}) :
        \E k \in DOMAIN out[i].rows :
            /\ out[i].rows[k].key = "North"
            /\ out[i].rows[k].Total_Checkins = 10
            /\ out[i].rows[k].False_Checkins = 6
            /\ out[i].rows[k].False_pct = 600
    /\ threshold = 60
    /\ \E i \in Shown({"late_table"}) :
        \E k \in DOMAIN out[i].rows : out[i].rows[k].False_pct = 600

=============================================================================
